---- MODULE Spec2Model ----
(***************************************************************************)
(* The NFTMarketplace contract of src/project.py as a state machine.       *)
(*                                                                         *)
(* The storage (self.data) is one variable per field.  Every entrypoint is *)
(* an operator that runs the entrypoint's statements in source order on a  *)
(* working copy of the storage and returns                                 *)
(*     [result, data, operations]                                          *)
(* where result is "ok" or the message of the assertion that failed, data  *)
(* is the working storage at the point where the call ended, and           *)
(* operations are the transfers emitted by sp.send up to that point.  The  *)
(* host (the chain, or SmartPy's test scenario) applies data and           *)
(* operations only when the result is "ok"; a failed call is rolled back.  *)
(* The variable last is the receipt of the most recent applied call.       *)
(*                                                                         *)
(* Amounts are mutez.  The chain bounds every attached amount by the       *)
(* total supply, far below the 63-bit range of mutez, so the products in   *)
(* split_tokens and the sums on collected_fees do not overflow; the        *)
(* subtraction of mutez, which fails below zero, is modelled.  A transfer   *)
(* of 0 mutez is emitted like any other, as test_edge_cases_rounding       *)
(* expects of a sale at 1 mutez.                                           *)
(***************************************************************************)
EXTENDS Integers, Sequences, FiniteSets, TLC

\* ------------------------------------------------------------------ bounds

\* Number of calls the host applies in one run of the model.
MaxCalls == 4

\* Number of tokens minted in one run of the model.
MaxTokens == 2

\* Callers and address arguments.
Addresses == {"admin", "alice", "bob"}

\* Metadata strings passed to mint.
Metadata == {"ipfs://QmA", "ipfs://QmB"}

\* Amounts of mutez: attached payments, listing prices, mint prices.
Mutez == {0, 1, 50}

\* Amounts attached to the entrypoints that do not look at sp.amount.
Tips == {0}

\* Amounts attached, in SpecPaid, to the entrypoints that do not look at
\* sp.amount.
Strays == {1}

\* token_id arguments: the ids a run can create and one that never exists.
TokenIds == 0 .. MaxTokens

\* Construction parameters <<royalty_percent, platform_fee_percent>> tried.
Percents == {<<5, 2>>, <<50, 49>>}

\* Highest listing price of the sales of SpecSale.
MaxPrice == 100

\* Listing prices of the sales of SpecSale.
SalePrices == 1 .. MaxPrice

\* Values of royalty_percent and of platform_fee_percent that SpecSale
\* passes to the constructor, which rejects the pairs that sum to 100 or more.
SalePercents == {0, 1, 5, 10, 33, 50, 98, 99}

\* ------------------------------------------------------------------- state

VARIABLES
    tokens,                 \* self.data.tokens: token_id -> token_type
    next_id,                \* self.data.next_id
    admin,                  \* self.data.admin
    mint_price,             \* self.data.mint_price
    royalty_percent,        \* self.data.royalty_percent
    platform_fee_percent,   \* self.data.platform_fee_percent
    collected_fees,         \* self.data.collected_fees
    paused,                 \* self.data.paused
    balance,                \* sp.balance: mutez held by the contract
    operations,             \* transfers emitted by the last call
    last,                   \* receipt of the last call
    calls                   \* number of calls applied so far

storage == <<tokens, next_id, admin, mint_price, royalty_percent,
             platform_fee_percent, collected_fees, paused>>

vars == <<tokens, next_id, admin, mint_price, royalty_percent,
          platform_fee_percent, collected_fees, paused, balance, operations,
          last, calls>>

\* self.data as one record.
data ==
    [tokens |-> tokens, next_id |-> next_id, admin |-> admin,
     mint_price |-> mint_price, royalty_percent |-> royalty_percent,
     platform_fee_percent |-> platform_fee_percent,
     collected_fees |-> collected_fees, paused |-> paused]

\* ----------------------------------------------------------------- helpers

\* A call that ran to its end.
Ok(d, ops) == [result |-> "ok", data |-> d, operations |-> ops]

\* A call stopped by a failed assertion, with the working storage d and the
\* operations ops it had produced when it stopped.
Failed(msg, d, ops) == [result |-> msg, data |-> d, operations |-> ops]

\* sp.send(destination, amount)
send(destination, amount) == [to |-> destination, amount |-> amount]


\* split_tokens rounding up instead of down.
split_tokens_rounding_up(amount, quantity, division) ==
    (amount * quantity + division - 1) \div division

\* sp.split_tokens(amount, quantity, division): amount * quantity / division,
\* rounded down.
split_tokens(amount, quantity, division) == (amount * quantity) \div division

\* self.data.tokens.contains(token_id)
contains(d, token_id) == token_id \in DOMAIN d.tokens

\* __init__ that accepts percentages whose sum is 100.
init_accepts_sum_of_100(admin_, mint_price_, royalty_, platform_fee_) ==
    IF ~(royalty_ + platform_fee_ <= 100)
    THEN Failed("Fees too high", <<>>, <<>>)
    ELSE Ok([tokens |-> <<>>, next_id |-> 0, admin |-> admin_,
             mint_price |-> mint_price_,
             royalty_percent |-> royalty_,
             platform_fee_percent |-> platform_fee_,
             collected_fees |-> 0, paused |-> FALSE], <<>>)

\* __init__ without the check of the percentages.
init_accepts_any_percent(admin_, mint_price_, royalty_, platform_fee_) ==
    Ok([tokens |-> <<>>, next_id |-> 0, admin |-> admin_,
        mint_price |-> mint_price_,
        royalty_percent |-> royalty_,
        platform_fee_percent |-> platform_fee_,
        collected_fees |-> 0, paused |-> FALSE], <<>>)

\* __init__: the storage of a freshly constructed contract, or the failed
\* assertion.
init(admin_, mint_price_, royalty_percent_, platform_fee_percent_) ==
    IF ~(royalty_percent_ + platform_fee_percent_ < 100)
    THEN Failed("Fees too high", <<>>, <<>>)
    ELSE Ok([tokens |-> <<>>, next_id |-> 0, admin |-> admin_,
             mint_price |-> mint_price_,
             royalty_percent |-> royalty_percent_,
             platform_fee_percent |-> platform_fee_percent_,
             collected_fees |-> 0, paused |-> FALSE], <<>>)

\* ------------------------------------------------------------- entrypoints


\* mint that stores the token at the id of the first token.
mint_at_first_id(d, sender, amount, metadata) ==
    IF d.paused THEN Failed("Contract is paused", d, <<>>)
    ELSE IF amount # d.mint_price THEN Failed("Invalid mint price", d, <<>>)
    ELSE
      LET d1 == [d EXCEPT !.tokens =
                   (0 :> [metadata |-> metadata, author |-> sender,
                          owner |-> sender, price |-> 0,
                          for_sale |-> FALSE]) @@ @]
          d2 == [d1 EXCEPT !.next_id = @ + 1]
          d3 == [d2 EXCEPT !.collected_fees = @ + amount]
      IN Ok(d3, <<>>)

\* mint without the increment of next_id.
mint_keeps_next_id(d, sender, amount, metadata) ==
    IF d.paused THEN Failed("Contract is paused", d, <<>>)
    ELSE IF amount # d.mint_price THEN Failed("Invalid mint price", d, <<>>)
    ELSE
      LET d1 == [d EXCEPT !.tokens =
                   (d.next_id :> [metadata |-> metadata, author |-> sender,
                                  owner |-> sender, price |-> 0,
                                  for_sale |-> FALSE]) @@ @]
          d3 == [d1 EXCEPT !.collected_fees = @ + amount]
      IN Ok(d3, <<>>)

\* mint that rejects only a payment below mint_price.
mint_accepts_overpayment(d, sender, amount, metadata) ==
    IF d.paused THEN Failed("Contract is paused", d, <<>>)
    ELSE IF amount < d.mint_price THEN Failed("Invalid mint price", d, <<>>)
    ELSE
      LET d1 == [d EXCEPT !.tokens =
                   (d.next_id :> [metadata |-> metadata, author |-> sender,
                                  owner |-> sender, price |-> 0,
                                  for_sale |-> FALSE]) @@ @]
          d2 == [d1 EXCEPT !.next_id = @ + 1]
          d3 == [d2 EXCEPT !.collected_fees = @ + amount]
      IN Ok(d3, <<>>)

\* mint without the check of paused.
mint_ignores_pause(d, sender, amount, metadata) ==
    IF amount # d.mint_price THEN Failed("Invalid mint price", d, <<>>)
    ELSE
      LET d1 == [d EXCEPT !.tokens =
                   (d.next_id :> [metadata |-> metadata, author |-> sender,
                                  owner |-> sender, price |-> 0,
                                  for_sale |-> FALSE]) @@ @]
          d2 == [d1 EXCEPT !.next_id = @ + 1]
          d3 == [d2 EXCEPT !.collected_fees = @ + amount]
      IN Ok(d3, <<>>)

mint(d, sender, amount, metadata) ==
    IF d.paused THEN Failed("Contract is paused", d, <<>>)
    ELSE IF amount # d.mint_price THEN Failed("Invalid mint price", d, <<>>)
    ELSE
      LET d1 == [d EXCEPT !.tokens =
                   (d.next_id :> [metadata |-> metadata, author |-> sender,
                                  owner |-> sender, price |-> 0,
                                  for_sale |-> FALSE]) @@ @]
          d2 == [d1 EXCEPT !.next_id = @ + 1]
          d3 == [d2 EXCEPT !.collected_fees = @ + amount]
      IN Ok(d3, <<>>)


\* list_for_sale without the check of the caller.
list_for_sale_by_anyone(d, sender, amount, token_id, price) ==
    IF d.paused THEN Failed("Contract is paused", d, <<>>)
    ELSE IF ~contains(d, token_id) THEN Failed("Token does not exist", d, <<>>)
    ELSE
      LET token == d.tokens[token_id] IN
      IF token.for_sale THEN Failed("Already listed for sale", d, <<>>)
      ELSE IF ~(price > 0) THEN Failed("Price must be greater than 0", d, <<>>)
      ELSE
        LET d1 == [d EXCEPT !.tokens[token_id].price = price]
            d2 == [d1 EXCEPT !.tokens[token_id].for_sale = TRUE]
        IN Ok(d2, <<>>)

\* list_for_sale that adds the attached payment to collected_fees.
list_for_sale_collects_payment(d, sender, amount, token_id, price) ==
    IF d.paused THEN Failed("Contract is paused", d, <<>>)
    ELSE IF ~contains(d, token_id) THEN Failed("Token does not exist", d, <<>>)
    ELSE
      LET token == d.tokens[token_id] IN
      IF token.owner # sender THEN Failed("Not the owner", d, <<>>)
      ELSE IF token.for_sale THEN Failed("Already listed for sale", d, <<>>)
      ELSE IF ~(price > 0) THEN Failed("Price must be greater than 0", d, <<>>)
      ELSE
        LET d1 == [d EXCEPT !.tokens[token_id].price = price]
            d2 == [d1 EXCEPT !.tokens[token_id].for_sale = TRUE]
            d3 == [d2 EXCEPT !.collected_fees = @ + amount]
        IN Ok(d3, <<>>)

\* list_for_sale of a token that is already for sale.
list_for_sale_relists(d, sender, amount, token_id, price) ==
    IF d.paused THEN Failed("Contract is paused", d, <<>>)
    ELSE IF ~contains(d, token_id) THEN Failed("Token does not exist", d, <<>>)
    ELSE
      LET token == d.tokens[token_id] IN
      IF token.owner # sender THEN Failed("Not the owner", d, <<>>)
      ELSE IF ~(price > 0) THEN Failed("Price must be greater than 0", d, <<>>)
      ELSE
        LET d1 == [d EXCEPT !.tokens[token_id].price = price]
            d2 == [d1 EXCEPT !.tokens[token_id].for_sale = TRUE]
        IN Ok(d2, <<>>)

\* list_for_sale without the check of the price.
list_for_sale_any_price(d, sender, amount, token_id, price) ==
    IF d.paused THEN Failed("Contract is paused", d, <<>>)
    ELSE IF ~contains(d, token_id) THEN Failed("Token does not exist", d, <<>>)
    ELSE
      LET token == d.tokens[token_id] IN
      IF token.owner # sender THEN Failed("Not the owner", d, <<>>)
      ELSE IF token.for_sale THEN Failed("Already listed for sale", d, <<>>)
      ELSE
        LET d1 == [d EXCEPT !.tokens[token_id].price = price]
            d2 == [d1 EXCEPT !.tokens[token_id].for_sale = TRUE]
        IN Ok(d2, <<>>)

\* list_for_sale without the check of paused.
list_for_sale_ignores_pause(d, sender, amount, token_id, price) ==
    IF ~contains(d, token_id) THEN Failed("Token does not exist", d, <<>>)
    ELSE
      LET token == d.tokens[token_id] IN
      IF token.owner # sender THEN Failed("Not the owner", d, <<>>)
      ELSE IF token.for_sale THEN Failed("Already listed for sale", d, <<>>)
      ELSE IF ~(price > 0) THEN Failed("Price must be greater than 0", d, <<>>)
      ELSE
        LET d1 == [d EXCEPT !.tokens[token_id].price = price]
            d2 == [d1 EXCEPT !.tokens[token_id].for_sale = TRUE]
        IN Ok(d2, <<>>)

list_for_sale(d, sender, amount, token_id, price) ==
    IF d.paused THEN Failed("Contract is paused", d, <<>>)
    ELSE IF ~contains(d, token_id) THEN Failed("Token does not exist", d, <<>>)
    ELSE
      LET token == d.tokens[token_id] IN
      IF token.owner # sender THEN Failed("Not the owner", d, <<>>)
      ELSE IF token.for_sale THEN Failed("Already listed for sale", d, <<>>)
      ELSE IF ~(price > 0) THEN Failed("Price must be greater than 0", d, <<>>)
      ELSE
        LET d1 == [d EXCEPT !.tokens[token_id].price = price]
            d2 == [d1 EXCEPT !.tokens[token_id].for_sale = TRUE]
        IN Ok(d2, <<>>)


\* cancel_sale without the reset of the price.
cancel_sale_keeps_price(d, sender, amount, token_id) ==
    IF ~contains(d, token_id) THEN Failed("Token does not exist", d, <<>>)
    ELSE
      LET token == d.tokens[token_id] IN
      IF token.owner # sender THEN Failed("Not the owner", d, <<>>)
      ELSE IF ~token.for_sale THEN Failed("Not listed for sale", d, <<>>)
      ELSE
        LET d1 == [d EXCEPT !.tokens[token_id].for_sale = FALSE]
        IN Ok(d1, <<>>)

\* cancel_sale with a check of paused.
cancel_sale_checks_pause(d, sender, amount, token_id) ==
    IF d.paused THEN Failed("Contract is paused", d, <<>>)
    ELSE IF ~contains(d, token_id) THEN Failed("Token does not exist", d, <<>>)
    ELSE
      LET token == d.tokens[token_id] IN
      IF token.owner # sender THEN Failed("Not the owner", d, <<>>)
      ELSE IF ~token.for_sale THEN Failed("Not listed for sale", d, <<>>)
      ELSE
        LET d1 == [d EXCEPT !.tokens[token_id].for_sale = FALSE]
            d2 == [d1 EXCEPT !.tokens[token_id].price = 0]
        IN Ok(d2, <<>>)

cancel_sale(d, sender, amount, token_id) ==
    IF ~contains(d, token_id) THEN Failed("Token does not exist", d, <<>>)
    ELSE
      LET token == d.tokens[token_id] IN
      IF token.owner # sender THEN Failed("Not the owner", d, <<>>)
      ELSE IF ~token.for_sale THEN Failed("Not listed for sale", d, <<>>)
      ELSE
        LET d1 == [d EXCEPT !.tokens[token_id].for_sale = FALSE]
            d2 == [d1 EXCEPT !.tokens[token_id].price = 0]
        IN Ok(d2, <<>>)


\* buy that checks the payment before the caller.
buy_checks_price_first(d, sender, amount, token_id) ==
    IF d.paused THEN Failed("Contract is paused", d, <<>>)
    ELSE IF ~contains(d, token_id) THEN Failed("Token does not exist", d, <<>>)
    ELSE
      LET token == d.tokens[token_id] IN
      IF ~token.for_sale THEN Failed("Token not for sale", d, <<>>)
      ELSE IF amount # token.price THEN Failed("Invalid price", d, <<>>)
      ELSE IF sender = token.owner
      THEN Failed("Cannot buy your own token", d, <<>>)
      ELSE
        LET royalty_amount ==
                split_tokens(token.price, d.royalty_percent, 100)
            platform_fee ==
                split_tokens(token.price, d.platform_fee_percent, 100)
        IN
        IF token.price - royalty_amount < 0
           \/ token.price - royalty_amount - platform_fee < 0
        THEN Failed("Mutez underflow", d, <<>>)
        ELSE
          LET seller_amount == token.price - royalty_amount - platform_fee
              ops == <<send(token.author, royalty_amount),
                       send(token.owner, seller_amount)>>
              d1 == [d EXCEPT !.collected_fees = @ + platform_fee]
              d2 == [d1 EXCEPT !.tokens[token_id].owner = sender]
              d3 == [d2 EXCEPT !.tokens[token_id].for_sale = FALSE]
              d4 == [d3 EXCEPT !.tokens[token_id].price = 0]
          IN Ok(d4, ops)

\* buy that pays the royalty to the owner of the token.
buy_pays_royalty_to_owner(d, sender, amount, token_id) ==
    IF d.paused THEN Failed("Contract is paused", d, <<>>)
    ELSE IF ~contains(d, token_id) THEN Failed("Token does not exist", d, <<>>)
    ELSE
      LET token == d.tokens[token_id] IN
      IF ~token.for_sale THEN Failed("Token not for sale", d, <<>>)
      ELSE IF sender = token.owner
      THEN Failed("Cannot buy your own token", d, <<>>)
      ELSE IF amount # token.price THEN Failed("Invalid price", d, <<>>)
      ELSE
        LET royalty_amount ==
                split_tokens(token.price, d.royalty_percent, 100)
            platform_fee ==
                split_tokens(token.price, d.platform_fee_percent, 100)
        IN
        IF token.price - royalty_amount < 0
           \/ token.price - royalty_amount - platform_fee < 0
        THEN Failed("Mutez underflow", d, <<>>)
        ELSE
          LET seller_amount == token.price - royalty_amount - platform_fee
              ops == <<send(token.owner, royalty_amount),
                       send(token.owner, seller_amount)>>
              d1 == [d EXCEPT !.collected_fees = @ + platform_fee]
              d2 == [d1 EXCEPT !.tokens[token_id].owner = sender]
              d3 == [d2 EXCEPT !.tokens[token_id].for_sale = FALSE]
              d4 == [d3 EXCEPT !.tokens[token_id].price = 0]
          IN Ok(d4, ops)

\* buy that transfers the ownership first and then pays the owner it reads
\* from the storage.
buy_pays_after_transfer(d, sender, amount, token_id) ==
    IF d.paused THEN Failed("Contract is paused", d, <<>>)
    ELSE IF ~contains(d, token_id) THEN Failed("Token does not exist", d, <<>>)
    ELSE
      LET token == d.tokens[token_id] IN
      IF ~token.for_sale THEN Failed("Token not for sale", d, <<>>)
      ELSE IF sender = token.owner
      THEN Failed("Cannot buy your own token", d, <<>>)
      ELSE IF amount # token.price THEN Failed("Invalid price", d, <<>>)
      ELSE
        LET royalty_amount ==
                split_tokens(token.price, d.royalty_percent, 100)
            platform_fee ==
                split_tokens(token.price, d.platform_fee_percent, 100)
        IN
        IF token.price - royalty_amount < 0
           \/ token.price - royalty_amount - platform_fee < 0
        THEN Failed("Mutez underflow", d, <<>>)
        ELSE
          LET seller_amount == token.price - royalty_amount - platform_fee
              d1 == [d EXCEPT !.collected_fees = @ + platform_fee]
              d2 == [d1 EXCEPT !.tokens[token_id].owner = sender]
              d3 == [d2 EXCEPT !.tokens[token_id].for_sale = FALSE]
              d4 == [d3 EXCEPT !.tokens[token_id].price = 0]
              ops == <<send(d4.tokens[token_id].author, royalty_amount),
                       send(d4.tokens[token_id].owner, seller_amount)>>
          IN Ok(d4, ops)

buy(d, sender, amount, token_id) ==
    IF d.paused THEN Failed("Contract is paused", d, <<>>)
    ELSE IF ~contains(d, token_id) THEN Failed("Token does not exist", d, <<>>)
    ELSE
      LET token == d.tokens[token_id] IN
      IF ~token.for_sale THEN Failed("Token not for sale", d, <<>>)
      ELSE IF sender = token.owner
      THEN Failed("Cannot buy your own token", d, <<>>)
      ELSE IF amount # token.price THEN Failed("Invalid price", d, <<>>)
      ELSE
        LET royalty_amount ==
                split_tokens(token.price, d.royalty_percent, 100)
            platform_fee ==
                split_tokens(token.price, d.platform_fee_percent, 100)
        IN
        \* mutez - mutez fails when the result would be negative
        IF token.price - royalty_amount < 0
           \/ token.price - royalty_amount - platform_fee < 0
        THEN Failed("Mutez underflow", d, <<>>)
        ELSE
          LET seller_amount == token.price - royalty_amount - platform_fee
              ops == <<send(token.author, royalty_amount),
                       send(token.owner, seller_amount)>>
              d1 == [d EXCEPT !.collected_fees = @ + platform_fee]
              d2 == [d1 EXCEPT !.tokens[token_id].owner = sender]
              d3 == [d2 EXCEPT !.tokens[token_id].for_sale = FALSE]
              d4 == [d3 EXCEPT !.tokens[token_id].price = 0]
          IN Ok(d4, ops)

\* transfer of a token that is for sale.
transfer_of_listed_token(d, sender, amount, token_id, new_owner) ==
    IF ~contains(d, token_id) THEN Failed("Token does not exist", d, <<>>)
    ELSE IF amount # 0 THEN Failed("No tez should be sent", d, <<>>)
    ELSE
      LET token == d.tokens[token_id] IN
      IF token.owner # sender THEN Failed("Not the owner", d, <<>>)
      ELSE IF new_owner = sender
      THEN Failed("Cannot transfer to yourself", d, <<>>)
      ELSE Ok([d EXCEPT !.tokens[token_id].owner = new_owner], <<>>)

\* transfer that hands over every token of the caller.
transfer_moves_every_token(d, sender, amount, token_id, new_owner) ==
    IF ~contains(d, token_id) THEN Failed("Token does not exist", d, <<>>)
    ELSE IF amount # 0 THEN Failed("No tez should be sent", d, <<>>)
    ELSE
      LET token == d.tokens[token_id] IN
      IF token.owner # sender THEN Failed("Not the owner", d, <<>>)
      ELSE IF new_owner = sender
      THEN Failed("Cannot transfer to yourself", d, <<>>)
      ELSE IF token.for_sale THEN Failed("Cancel sale before transfer", d, <<>>)
      ELSE Ok([d EXCEPT !.tokens =
                 [t \in DOMAIN d.tokens |->
                    IF d.tokens[t].owner = sender
                    THEN [d.tokens[t] EXCEPT !.owner = new_owner]
                    ELSE d.tokens[t]]], <<>>)

transfer(d, sender, amount, token_id, new_owner) ==
    IF ~contains(d, token_id) THEN Failed("Token does not exist", d, <<>>)
    ELSE IF amount # 0 THEN Failed("No tez should be sent", d, <<>>)
    ELSE
      LET token == d.tokens[token_id] IN
      IF token.owner # sender THEN Failed("Not the owner", d, <<>>)
      ELSE IF new_owner = sender
      THEN Failed("Cannot transfer to yourself", d, <<>>)
      ELSE IF token.for_sale THEN Failed("Cancel sale before transfer", d, <<>>)
      ELSE Ok([d EXCEPT !.tokens[token_id].owner = new_owner], <<>>)

\* update_author_address without the check of the new address.
update_author_address_to_self(d, sender, amount, token_id, new_author) ==
    IF ~contains(d, token_id) THEN Failed("Token does not exist", d, <<>>)
    ELSE
      LET token == d.tokens[token_id] IN
      IF token.author # sender THEN Failed("Not the author", d, <<>>)
      ELSE Ok([d EXCEPT !.tokens[token_id].author = new_author], <<>>)

update_author_address(d, sender, amount, token_id, new_author) ==
    IF ~contains(d, token_id) THEN Failed("Token does not exist", d, <<>>)
    ELSE
      LET token == d.tokens[token_id] IN
      IF token.author # sender THEN Failed("Not the author", d, <<>>)
      ELSE IF new_author = sender THEN Failed("Same address", d, <<>>)
      ELSE Ok([d EXCEPT !.tokens[token_id].author = new_author], <<>>)

\* withdraw_fees without the reset of collected_fees.
withdraw_fees_keeps_collected_fees(d, sender, amount) ==
    IF sender # d.admin THEN Failed("Not admin", d, <<>>)
    ELSE IF ~(d.collected_fees > 0) THEN Failed("No fees to withdraw", d, <<>>)
    ELSE
      LET amount_ == d.collected_fees
      IN Ok(d, <<send(d.admin, amount_)>>)

withdraw_fees(d, sender, amount) ==
    IF sender # d.admin THEN Failed("Not admin", d, <<>>)
    ELSE IF ~(d.collected_fees > 0) THEN Failed("No fees to withdraw", d, <<>>)
    ELSE
      LET amount_ == d.collected_fees
          d1 == [d EXCEPT !.collected_fees = 0]
      IN Ok(d1, <<send(d1.admin, amount_)>>)

set_pause(d, sender, amount, paused_) ==
    IF sender # d.admin THEN Failed("Not admin", d, <<>>)
    ELSE Ok([d EXCEPT !.paused = paused_], <<>>)


\* update_mint_price without the check of the caller.
update_mint_price_by_anyone(d, sender, amount, new_price) ==
    Ok([d EXCEPT !.mint_price = new_price], <<>>)

update_mint_price(d, sender, amount, new_price) ==
    IF sender # d.admin THEN Failed("Not admin", d, <<>>)
    ELSE Ok([d EXCEPT !.mint_price = new_price], <<>>)


\* transfer_admin that also resets collected_fees.
transfer_admin_resets_fees(d, sender, amount, new_admin) ==
    IF sender # d.admin THEN Failed("Not admin", d, <<>>)
    ELSE IF new_admin = d.admin THEN Failed("Same admin", d, <<>>)
    ELSE Ok([d EXCEPT !.admin = new_admin, !.collected_fees = 0], <<>>)

\* transfer_admin that writes the new admin before it checks the caller.
transfer_admin_writes_first(d, sender, amount, new_admin) ==
    LET d1 == [d EXCEPT !.admin = new_admin] IN
    IF sender # d.admin THEN Failed("Not admin", d1, <<>>)
    ELSE IF new_admin = d.admin THEN Failed("Same admin", d1, <<>>)
    ELSE Ok(d1, <<>>)

transfer_admin(d, sender, amount, new_admin) ==
    IF sender # d.admin THEN Failed("Not admin", d, <<>>)
    ELSE IF new_admin = d.admin THEN Failed("Same admin", d, <<>>)
    ELSE Ok([d EXCEPT !.admin = new_admin], <<>>)

\* -------------------------------------------------------------------- host

RECURSIVE Total(_)
\* Sum of the amounts of a list of transfers.
Total(ops) == IF ops = <<>> THEN 0 ELSE Head(ops).amount + Total(Tail(ops))

\* The host's outcome of a call whose code returned r with amount attached:
\* the amount is credited first, and the emitted transfers must be covered by
\* the balance, or the whole call fails.
Outcome(r, amount) ==
    IF r.result = "ok" /\ Total(r.operations) > balance + amount
    THEN "Balance too low"
    ELSE r.result

\* The receipt of an applied call: the call as it was made.
Receipt(entrypoint, sender, amount, args) ==
    [entrypoint |-> entrypoint, sender |-> sender, amount |-> amount,
     args |-> args]

\* The host delivers one call: it commits the storage and the transfers of a
\* call that ended well, and rolls back any other, which leaves no trace.
\* A run of the model ends after MaxCalls applied calls.
Deliver(entrypoint, sender, amount, args, r) ==
    IF calls < MaxCalls /\ Outcome(r, amount) = "ok"
    THEN /\ calls' = calls + 1
         /\ last' = Receipt(entrypoint, sender, amount, args)
         /\ tokens' = r.data.tokens
         /\ next_id' = r.data.next_id
         /\ admin' = r.data.admin
         /\ mint_price' = r.data.mint_price
         /\ royalty_percent' = r.data.royalty_percent
         /\ platform_fee_percent' = r.data.platform_fee_percent
         /\ collected_fees' = r.data.collected_fees
         /\ paused' = r.data.paused
         /\ balance' = balance + amount - Total(r.operations)
         /\ operations' = r.operations
    ELSE UNCHANGED vars

\* ----------------------------------------------------------------- actions

\* The variables of the storage hold the storage d.
Stored(d) ==
    /\ tokens = d.tokens
    /\ next_id = d.next_id
    /\ admin = d.admin
    /\ mint_price = d.mint_price
    /\ royalty_percent = d.royalty_percent
    /\ platform_fee_percent = d.platform_fee_percent
    /\ collected_fees = d.collected_fees
    /\ paused = d.paused

\* A contract that has just been constructed.
Init ==
    \E p \in Percents :
      LET r == init("admin", 1, p[1], p[2]) IN
        /\ r.result = "ok"
        /\ Stored(r.data)
        /\ balance = 0
        /\ operations = <<>>
        /\ last = Receipt("__init__", "admin", 0, p)
        /\ calls = 0

\* A contract on which alice has minted token 0 and listed it, with one
\* more call to come: any listing price of SalePrices under any percentages
\* of SalePercents that the constructor accepts.
InitSale ==
    \E price \in SalePrices, royalty \in SalePercents, fee \in SalePercents :
      LET r0 == init("admin", 1, royalty, fee)
          r1 == mint(r0.data, "alice", 1, "ipfs://QmA")
          r2 == list_for_sale(r1.data, "alice", 0, 0, price)
      IN /\ r0.result = "ok"
         /\ r1.result = "ok"
         /\ r2.result = "ok"
         /\ Stored(r2.data)
         /\ balance = 1
         /\ operations = <<>>
         /\ last = Receipt("list_for_sale", "alice", 0,
                           [token_id |-> 0, price |-> price])
         /\ calls = MaxCalls - 1

\* A contract on which alice has minted token 0 and sold it to bob, as in
\* test_royalties after the first purchase, with three more calls to come:
\* the token is owned by bob and its author is alice.
InitResale ==
    \E p \in Percents, price \in Mutez \ {0} :
      LET r0 == init("admin", 1, p[1], p[2])
          r1 == mint(r0.data, "alice", 1, "ipfs://QmA")
          r2 == list_for_sale(r1.data, "alice", 0, 0, price)
          r3 == buy(r2.data, "bob", price, 0)
      IN /\ r0.result = "ok"
         /\ r1.result = "ok"
         /\ r2.result = "ok"
         /\ r3.result = "ok"
         /\ Stored(r3.data)
         /\ balance = 1 + price - Total(r3.operations)
         /\ operations = r3.operations
         /\ last = Receipt("buy", "bob", price, [token_id |-> 0])
         /\ calls = MaxCalls - 3

Mint ==
    \E sender \in Addresses, amount \in Mutez, metadata \in Metadata :
      /\ next_id < MaxTokens
      /\ Deliver("mint", sender, amount, [metadata |-> metadata],
                 mint(data, sender, amount, metadata))

ListForSale ==
    \E sender \in Addresses, amount \in Tips, token_id \in TokenIds,
       price \in Mutez :
      Deliver("list_for_sale", sender, amount,
              [token_id |-> token_id, price |-> price],
              list_for_sale(data, sender, amount, token_id, price))

CancelSale ==
    \E sender \in Addresses, amount \in Tips, token_id \in TokenIds :
      Deliver("cancel_sale", sender, amount, [token_id |-> token_id],
              cancel_sale(data, sender, amount, token_id))

\* The prices of the listed tokens.
ListedPrices ==
    {tokens[t].price : t \in {u \in DOMAIN tokens : tokens[u].for_sale}}

Buy ==
    \E sender \in Addresses, amount \in Mutez \cup ListedPrices,
       token_id \in TokenIds :
      Deliver("buy", sender, amount, [token_id |-> token_id],
              buy(data, sender, amount, token_id))

Transfer ==
    \E sender \in Addresses, amount \in Mutez, token_id \in TokenIds,
       new_owner \in Addresses :
      Deliver("transfer", sender, amount,
              [token_id |-> token_id, new_owner |-> new_owner],
              transfer(data, sender, amount, token_id, new_owner))

UpdateAuthorAddress ==
    \E sender \in Addresses, amount \in Tips, token_id \in TokenIds,
       new_author \in Addresses :
      Deliver("update_author_address", sender, amount,
              [token_id |-> token_id, new_author |-> new_author],
              update_author_address(data, sender, amount, token_id,
                                    new_author))

WithdrawFees ==
    \E sender \in Addresses, amount \in Tips :
      Deliver("withdraw_fees", sender, amount, <<>>,
              withdraw_fees(data, sender, amount))

SetPause ==
    \E sender \in Addresses, amount \in Tips, paused_ \in BOOLEAN :
      Deliver("set_pause", sender, amount, [paused |-> paused_],
              set_pause(data, sender, amount, paused_))

UpdateMintPrice ==
    \E sender \in Addresses, amount \in Tips, new_price \in Mutez :
      Deliver("update_mint_price", sender, amount, [new_price |-> new_price],
              update_mint_price(data, sender, amount, new_price))

TransferAdmin ==
    \E sender \in Addresses, amount \in Tips, new_admin \in Addresses :
      Deliver("transfer_admin", sender, amount, [new_admin |-> new_admin],
              transfer_admin(data, sender, amount, new_admin))

Next ==
    \/ Mint
    \/ ListForSale
    \/ CancelSale
    \/ Buy
    \/ Transfer
    \/ UpdateAuthorAddress
    \/ WithdrawFees
    \/ SetPause
    \/ UpdateMintPrice
    \/ TransferAdmin

Spec == Init /\ [][Next]_vars

\* One call on a contract with a listed token.
SpecSale == InitSale /\ [][Next]_vars

\* Three calls on a contract whose token 0 has been sold once.
SpecResale == InitResale /\ [][Next]_vars

\* ------------------------------------------------------------------ claims

\* x is the integer part of p * percent / 100.
IsFloor(x, p, percent) == x * 100 <= p * percent /\ p * percent < (x + 1) * 100

\* The applied call of a step is a call of entrypoint e.
Applied(e) == calls' = calls + 1 /\ last'.entrypoint = e

\* Every call that can be made: an entrypoint, a caller, a payment and the
\* arguments.
Inputs ==
    {[entrypoint |-> "mint", sender |-> s, amount |-> a,
      args |-> [metadata |-> m]] :
        s \in Addresses, a \in Mutez, m \in Metadata}
    \cup
    {[entrypoint |-> "list_for_sale", sender |-> s, amount |-> a,
      args |-> [token_id |-> t, price |-> p]] :
        s \in Addresses, a \in Mutez, t \in TokenIds, p \in Mutez}
    \cup
    {[entrypoint |-> e, sender |-> s, amount |-> a,
      args |-> [token_id |-> t]] :
        e \in {"cancel_sale", "buy"}, s \in Addresses, a \in Mutez,
        t \in TokenIds}
    \cup
    {[entrypoint |-> "transfer", sender |-> s, amount |-> a,
      args |-> [token_id |-> t, new_owner |-> o]] :
        s \in Addresses, a \in Mutez, t \in TokenIds, o \in Addresses}
    \cup
    {[entrypoint |-> "update_author_address", sender |-> s, amount |-> a,
      args |-> [token_id |-> t, new_author |-> o]] :
        s \in Addresses, a \in Mutez, t \in TokenIds, o \in Addresses}
    \cup
    {[entrypoint |-> "withdraw_fees", sender |-> s, amount |-> a,
      args |-> <<>>] :
        s \in Addresses, a \in Mutez}
    \cup
    {[entrypoint |-> "set_pause", sender |-> s, amount |-> a,
      args |-> [paused |-> f]] :
        s \in Addresses, a \in Mutez, f \in BOOLEAN}
    \cup
    {[entrypoint |-> "update_mint_price", sender |-> s, amount |-> a,
      args |-> [new_price |-> p]] :
        s \in Addresses, a \in Mutez, p \in Mutez}
    \cup
    {[entrypoint |-> "transfer_admin", sender |-> s, amount |-> a,
      args |-> [new_admin |-> o]] :
        s \in Addresses, a \in Mutez, o \in Addresses}

\* The result of the code of the call c on the storage d.
Run(d, c) ==
    CASE c.entrypoint = "mint" ->
           mint(d, c.sender, c.amount, c.args.metadata)
      [] c.entrypoint = "list_for_sale" ->
           list_for_sale(d, c.sender, c.amount, c.args.token_id, c.args.price)
      [] c.entrypoint = "cancel_sale" ->
           cancel_sale(d, c.sender, c.amount, c.args.token_id)
      [] c.entrypoint = "buy" ->
           buy(d, c.sender, c.amount, c.args.token_id)
      [] c.entrypoint = "transfer" ->
           transfer(d, c.sender, c.amount, c.args.token_id, c.args.new_owner)
      [] c.entrypoint = "update_author_address" ->
           update_author_address(d, c.sender, c.amount, c.args.token_id,
                                 c.args.new_author)
      [] c.entrypoint = "withdraw_fees" ->
           withdraw_fees(d, c.sender, c.amount)
      [] c.entrypoint = "set_pause" ->
           set_pause(d, c.sender, c.amount, c.args.paused)
      [] c.entrypoint = "update_mint_price" ->
           update_mint_price(d, c.sender, c.amount, c.args.new_price)
      [] c.entrypoint = "transfer_admin" ->
           transfer_admin(d, c.sender, c.amount, c.args.new_admin)

\* A call, with a payment attached, of an entrypoint that does not look at
\* sp.amount: every entrypoint but mint, buy and transfer.
Paid ==
    \E c \in Inputs :
      /\ c.entrypoint \notin {"mint", "buy", "transfer"}
      /\ c.amount \in Strays
      /\ Deliver(c.entrypoint, c.sender, c.amount, c.args, Run(data, c))

\* The calls of Next and the calls with a payment that no check looks at.
NextPaid == Next \/ Paid

\* Three calls, with or without stray payments, on a contract whose token 0
\* has been sold once.
SpecPaid == InitResale /\ [][NextPaid]_vars

\* The entrypoints of the admin.
AdminEntrypoints ==
    {"withdraw_fees", "set_pause", "update_mint_price", "transfer_admin"}

\* C1: every successful buy of a token listed at price p >= 1 pays
\* royalty = floor(p * royalty_percent / 100) and
\* seller_amount = p - royalty - platform_fee, and keeps
\* platform_fee = floor(p * platform_fee_percent / 100), so that the three
\* parts sum to p exactly; when royalty and platform_fee are both 0,
\* seller_amount is p.
C1_FeeSplit ==
    [][Applied("buy") =>
        LET p == tokens[last'.args.token_id].price
            royalty == operations'[1].amount
            seller_amount == operations'[2].amount
            platform_fee == collected_fees' - collected_fees
        IN /\ p >= 1
           /\ Len(operations') = 2
           /\ IsFloor(royalty, p, royalty_percent)
           /\ IsFloor(platform_fee, p, platform_fee_percent)
           /\ seller_amount = p - royalty - platform_fee
           /\ royalty + platform_fee + seller_amount = p
           /\ (royalty = 0 /\ platform_fee = 0 => seller_amount = p)]_vars

\* A buy has been applied whose royalty was rounded down to a nonzero amount.
C1_Witness ==
    /\ last.entrypoint = "buy"
    /\ operations[1].amount > 0
    /\ operations[1].amount * 100 < last.amount * royalty_percent

\* The conditions under which the code of buy accepts a call.
BuyAccepted(sender, amount, token_id) ==
    /\ ~paused
    /\ token_id \in DOMAIN tokens
    /\ tokens[token_id].for_sale
    /\ sender # tokens[token_id].owner
    /\ amount = tokens[token_id].price

\* The scenario of test_buy: a fresh contract with a mint price of 1 tez,
\* 5% royalty and 2% fee; alice mints token 0 and lists it at 10 tez; bob
\* buys it.
TestBuy ==
    LET s0 == init("admin", 1000000, 5, 2).data
        s1 == mint(s0, "alice", 1000000, "NFT").data
        s2 == list_for_sale(s1, "alice", 0, 0, 10000000).data
    IN buy(s2, "bob", 10000000, 0)

\* C2: buy succeeds exactly when the contract is not paused, the token
\* exists, it is for sale, the caller is not its owner and the payment is the
\* listed price; a successful buy pays the royalty to the author and
\* seller_amount to the owner recorded before the call, adds platform_fee to
\* collected_fees and leaves the token with owner = caller, for_sale = false
\* and price = 0.  At 5% and 2%, a price of 10_000_000 pays 500_000 and
\* 9_300_000 and adds 200_000 to collected_fees.
C2_Buy ==
    /\ \A sender \in Addresses, amount \in Mutez, token_id \in TokenIds :
         LET r == buy(data, sender, amount, token_id) IN
           /\ Outcome(r, amount) = "ok"
                <=> BuyAccepted(sender, amount, token_id)
           /\ r.result = "ok" =>
                LET token == tokens[token_id]
                    royalty == (token.price * royalty_percent) \div 100
                    platform_fee ==
                        (token.price * platform_fee_percent) \div 100
                IN /\ r.operations =
                        <<[to |-> token.author, amount |-> royalty],
                          [to |-> token.owner,
                           amount |-> token.price - royalty - platform_fee]>>
                   /\ r.data.collected_fees = collected_fees + platform_fee
                   /\ r.data.tokens[token_id] =
                        [token EXCEPT !.owner = sender, !.for_sale = FALSE,
                                      !.price = 0]
    /\ TestBuy.result = "ok"
    /\ TestBuy.operations = <<[to |-> "alice", amount |-> 500000],
                              [to |-> "alice", amount |-> 9300000]>>
    /\ TestBuy.data.collected_fees = 1000000 + 200000
    /\ TestBuy.data.tokens[0].owner = "bob"

\* A buy has been applied that paid a seller who is not the buyer, and whose
\* three parts are all nonzero.
C2_Witness ==
    /\ last.entrypoint = "buy"
    /\ operations[2].to # last.sender
    /\ operations[1].amount > 0
    /\ operations[2].amount > 0
    /\ collected_fees > mint_price
    /\ tokens[last.args.token_id].owner = last.sender

\* The result r of a call on the storage d is "ok", or the call stopped
\* before it wrote to the storage or emitted a transfer.
NoPartialWrite(r, d) == r.result # "ok" => r.data = d /\ r.operations = <<>>

\* C3: a call of any entrypoint that fails a precondition leaves the whole
\* storage as it was and makes no payout: every check of an entrypoint comes
\* before its first write and its first send.
C3_AbortIsNoOp == \A c \in Inputs : NoPartialWrite(Run(data, c), data)

\* Calls are rejected in a state with tokens, a listing and fees: a buy with
\* the wrong payment, and an admin operation called by another address.
C3_Witness ==
    /\ collected_fees > 0
    /\ \E token_id \in DOMAIN tokens :
         /\ tokens[token_id].for_sale
         /\ \E sender \in Addresses \ {tokens[token_id].owner} :
              buy(data, sender, 0, token_id).result = "Invalid price"
    /\ \E sender \in Addresses :
         transfer_admin(data, sender, 0, sender).result = "Not admin"

\* C4: every token that is for sale has a price above 0; list_for_sale never
\* lists at price 0, and a successful cancel_sale or buy leaves the token
\* not for sale at price 0.
C4_ForSaleHasPrice ==
    /\ \A token_id \in DOMAIN tokens :
         tokens[token_id].for_sale => tokens[token_id].price > 0
    /\ \A sender \in Addresses, amount \in Mutez, token_id \in TokenIds :
         LET c == cancel_sale(data, sender, amount, token_id)
             b == buy(data, sender, amount, token_id)
         IN /\ list_for_sale(data, sender, amount, token_id, 0).result # "ok"
            /\ c.result = "ok" =>
                 /\ c.data.tokens[token_id].for_sale = FALSE
                 /\ c.data.tokens[token_id].price = 0
            /\ b.result = "ok" =>
                 /\ b.data.tokens[token_id].for_sale = FALSE
                 /\ b.data.tokens[token_id].price = 0

\* A listing has just been made, at a price above 0.
C4_Witness ==
    /\ last.entrypoint = "list_for_sale"
    /\ tokens[last.args.token_id].for_sale
    /\ tokens[last.args.token_id].price = last.args.price
    /\ last.args.price > 0

\* The ids of the tokens are 0 .. next_id - 1.
IdsAreSequential == DOMAIN tokens = 0 .. (next_id - 1)

\* C5: the ids present in tokens are exactly 0 .. next_id - 1; next_id never
\* decreases, no token is ever removed, and a mint takes an id that no token
\* has.
C5_SequentialIds ==
    [][/\ IdsAreSequential
       /\ IdsAreSequential'
       /\ Cardinality(DOMAIN tokens') = next_id'
       /\ next_id' >= next_id
       /\ DOMAIN tokens \subseteq DOMAIN tokens'
       /\ Applied("mint") =>
            /\ next_id \notin DOMAIN tokens
            /\ DOMAIN tokens' = DOMAIN tokens \cup {next_id}
            /\ next_id' = next_id + 1
       /\ ~Applied("mint") => next_id' = next_id]_vars

\* A second token has just been minted.
C5_Witness == last.entrypoint = "mint" /\ next_id = 2 /\ DOMAIN tokens = {0, 1}

\* C6: mint succeeds exactly when the contract is not paused and the payment
\* equals the current mint_price, which only a successful update_mint_price
\* changes; a successful mint inserts the token {metadata, author = caller,
\* owner = caller, price = 0, for_sale = false} at next_id, adds 1 to
\* next_id and the payment to collected_fees.
C6_Mint ==
    /\ \A sender \in Addresses, amount \in Mutez, metadata \in Metadata :
         LET r == mint(data, sender, amount, metadata) IN
           /\ Outcome(r, amount) = "ok" <=> ~paused /\ amount = mint_price
           /\ r.result = "ok" =>
                r.data =
                  [data EXCEPT
                     !.tokens =
                        [t \in DOMAIN tokens \cup {next_id} |->
                           IF t = next_id
                           THEN [metadata |-> metadata, author |-> sender,
                                 owner |-> sender, price |-> 0,
                                 for_sale |-> FALSE]
                           ELSE tokens[t]],
                     !.next_id = next_id + 1,
                     !.collected_fees = collected_fees + amount]
    /\ \A c \in Inputs :
         LET r == Run(data, c) IN
           /\ r.result = "ok" /\ r.data.mint_price # mint_price =>
                c.entrypoint = "update_mint_price"
           /\ r.result = "ok" /\ c.entrypoint = "update_mint_price" =>
                \A sender \in Addresses, amount \in Mutez,
                   metadata \in Metadata :
                  mint(r.data, sender, amount, metadata).result = "ok"
                      <=> ~paused /\ amount = c.args.new_price

\* A token has been minted for a mint price that update_mint_price had set.
C6_Witness ==
    /\ last.entrypoint = "mint"
    /\ last.amount = 50
    /\ mint_price = 50
    /\ collected_fees = 50
    /\ tokens[next_id - 1].author = last.sender
    /\ tokens[next_id - 1].owner = last.sender

\* C7: while paused, every mint and every buy fails; once the admin has
\* called set_pause(false), a mint that pays mint_price succeeds again and a
\* token listed before the pause can be bought at its price, which no call
\* made during the pause can have changed.
C7_PauseBlocksMintAndBuy ==
    paused =>
      /\ \A c \in Inputs :
           LET r == Run(data, c) IN
             /\ c.entrypoint \in {"mint", "buy"} =>
                  r.result = "Contract is paused"
             /\ \A t \in DOMAIN tokens :
                  r.result = "ok" /\ tokens[t].for_sale
                    /\ r.data.tokens[t].for_sale
                  => /\ r.data.tokens[t].price = tokens[t].price
                     /\ r.data.tokens[t].owner = tokens[t].owner
      /\ \A amount \in Mutez :
           LET u == set_pause(data, admin, amount, FALSE) IN
             /\ u.result = "ok"
             /\ u.data.tokens = tokens
             /\ u.data.mint_price = mint_price
             /\ \A sender \in Addresses, metadata \in Metadata :
                  mint(u.data, sender, mint_price, metadata).result = "ok"
             /\ \A t \in DOMAIN tokens, sender \in Addresses :
                  tokens[t].for_sale /\ sender # tokens[t].owner =>
                    buy(u.data, sender, tokens[t].price, t).result = "ok"

\* The contract has just been paused while a token is listed.
C7_Witness ==
    /\ paused
    /\ last.entrypoint = "set_pause"
    /\ \E t \in DOMAIN tokens : tokens[t].for_sale

\* C8 as stated: while paused, a list_for_sale by the owner of an existing
\* token that is not listed, at a price above 0, succeeds and sets
\* for_sale = true and the price.
C8_PauseDoesNotBlockListing ==
    paused =>
      \A t \in DOMAIN tokens, amount \in Mutez, price \in Mutez \ {0} :
        ~tokens[t].for_sale =>
          LET r == list_for_sale(data, tokens[t].owner, amount, t, price) IN
            /\ r.result = "ok"
            /\ r.data.tokens[t].for_sale
            /\ r.data.tokens[t].price = price

\* C8, amended: pausing blocks list_for_sale.  While paused, every
\* list_for_sale fails as paused and changes nothing; while not paused, a
\* list_for_sale by the owner of an existing token that is not listed, at a
\* price above 0, succeeds and sets for_sale = true and the price.
C8_PauseBlocksListing ==
    /\ paused =>
         \A sender \in Addresses, amount \in Mutez, t \in TokenIds,
            price \in Mutez :
           LET r == list_for_sale(data, sender, amount, t, price) IN
             r.result = "Contract is paused" /\ r.data = data
    /\ ~paused =>
         \A t \in DOMAIN tokens, amount \in Mutez, price \in Mutez \ {0} :
           ~tokens[t].for_sale =>
             LET r == list_for_sale(data, tokens[t].owner, amount, t, price)
             IN /\ r.result = "ok"
                /\ r.data.tokens[t].for_sale
                /\ r.data.tokens[t].price = price

\* The contract is paused and holds a token that is not listed, which its
\* owner cannot list.
C8_Witness ==
    /\ paused
    /\ \E t \in DOMAIN tokens :
         /\ ~tokens[t].for_sale
         /\ list_for_sale(data, tokens[t].owner, 0, t, 50).result
              = "Contract is paused"

\* C9: for transfer, cancel_sale, update_author_address, withdraw_fees,
\* set_pause, update_mint_price and transfer_admin, the result of a call,
\* its payouts and the storage it produces are the same with paused = true
\* as with paused = false, all else equal.
C9_PauseDoesNotBlockOthers ==
    \A c \in Inputs :
      c.entrypoint \notin {"mint", "buy", "list_for_sale"} =>
        LET on == Run([data EXCEPT !.paused = TRUE], c)
            off == Run([data EXCEPT !.paused = FALSE], c)
        IN /\ on.result = off.result
           /\ on.operations = off.operations
           /\ [on.data EXCEPT !.paused = FALSE]
                = [off.data EXCEPT !.paused = FALSE]
           /\ on.data.paused =
                IF on.result = "ok" /\ c.entrypoint = "set_pause"
                THEN c.args.paused ELSE TRUE
           /\ off.data.paused =
                IF off.result = "ok" /\ c.entrypoint = "set_pause"
                THEN c.args.paused ELSE FALSE

\* A transfer has been applied while the contract was paused.
C9_Witness ==
    /\ paused
    /\ last.entrypoint = "transfer"
    /\ tokens[last.args.token_id].owner = last.args.new_owner

\* C10: withdraw_fees, set_pause, update_mint_price and transfer_admin fail
\* as not admin for every caller other than the admin; the admin changes only
\* by a successful transfer_admin that the admin calls with another address,
\* and on the storage it leaves the four entrypoints reject the previous
\* admin and do not reject the new one.
C10_AdminOnly ==
    \A c \in Inputs :
      LET r == Run(data, c) IN
        /\ c.entrypoint \in AdminEntrypoints =>
             (r.result = "Not admin" <=> c.sender # admin)
        /\ r.result = "ok" /\ r.data.admin # admin =>
             /\ c.entrypoint = "transfer_admin"
             /\ c.sender = admin
             /\ c.args.new_admin # admin
             /\ r.data.admin = c.args.new_admin
             /\ \A c2 \in Inputs :
                  c2.entrypoint \in AdminEntrypoints =>
                    /\ c2.sender = admin =>
                         Run(r.data, c2).result = "Not admin"
                    /\ c2.sender = c.args.new_admin =>
                         Run(r.data, c2).result # "Not admin"

\* The admin rights have just been transferred, and the previous admin is
\* rejected.
C10_Witness ==
    /\ last.entrypoint = "transfer_admin"
    /\ admin = last.args.new_admin
    /\ admin # last.sender
    /\ set_pause(data, last.sender, 0, TRUE).result = "Not admin"

\* C11: the author of a token is unchanged by buy, transfer, list_for_sale
\* and cancel_sale, and by every call on another token; it changes only by a
\* successful update_author_address that the current author calls on that
\* token, to the address given.  A mint makes its caller the author.  Every
\* buy pays the royalty to the author recorded when it is called, whoever
\* owns the token, so over any resales and transfers the royalty goes to the
\* minter or to the address set by the latest update_author_address.
C11_AuthorPersists ==
    \A c \in Inputs :
      LET r == Run(data, c) IN
        r.result = "ok" =>
          /\ \A t \in DOMAIN tokens :
               /\ c.entrypoint \in {"buy", "transfer", "list_for_sale",
                                    "cancel_sale"}
                    => r.data.tokens[t].author = tokens[t].author
               /\ r.data.tokens[t].author # tokens[t].author =>
                    /\ c.entrypoint = "update_author_address"
                    /\ c.args.token_id = t
                    /\ c.sender = tokens[t].author
                    /\ r.data.tokens[t].author = c.args.new_author
          /\ c.entrypoint = "update_author_address" =>
               r.data.tokens[c.args.token_id].author = c.args.new_author
          /\ c.entrypoint = "mint" => r.data.tokens[next_id].author = c.sender
          /\ c.entrypoint = "buy" =>
               /\ r.operations[1].to = tokens[c.args.token_id].author
               /\ r.operations[1].amount =
                    (tokens[c.args.token_id].price * royalty_percent) \div 100

\* A token sold once has been sold again: the royalty of the resale went to
\* its author, who is neither the seller nor the buyer and still the author.
C11_Witness ==
    /\ last.entrypoint = "buy"
    /\ calls > MaxCalls - 3
    /\ operations[1].amount > 0
    /\ operations[1].to = tokens[last.args.token_id].author
    /\ operations[1].to # operations[2].to
    /\ operations[1].to # last.sender

\* The entrypoints that take a token_id.
TokenEntrypoints ==
    {"list_for_sale", "cancel_sale", "buy", "transfer",
     "update_author_address"}

\* C12: every successful list_for_sale, cancel_sale, buy, transfer or
\* update_author_address on a token leaves the record of every other token
\* as it was, and a successful mint leaves the record of every token that
\* existed as it was.
C12_Isolation ==
    \A c \in Inputs :
      LET r == Run(data, c) IN
        r.result = "ok" =>
          /\ c.entrypoint \in TokenEntrypoints =>
               /\ DOMAIN r.data.tokens = DOMAIN tokens
               /\ \A t \in DOMAIN tokens \ {c.args.token_id} :
                    r.data.tokens[t] = tokens[t]
          /\ c.entrypoint = "mint" =>
               \A t \in DOMAIN tokens : r.data.tokens[t] = tokens[t]

\* One of two tokens of the same minter has just been bought, and the other
\* is still the minter's.
C12_Witness ==
    /\ last.entrypoint = "buy"
    /\ DOMAIN tokens = {0, 1}
    /\ \E t \in DOMAIN tokens \ {last.args.token_id} :
         /\ tokens[t].author = tokens[last.args.token_id].author
         /\ tokens[t].owner = tokens[t].author
         /\ tokens[t].owner # last.sender
         /\ ~tokens[t].for_sale

\* The call c is a self-interaction: a buy by the owner of a listed token, a
\* transfer to the caller, an update_author_address to the caller, or a
\* transfer_admin to the admin.
SelfInteraction(c) ==
    \/ /\ c.entrypoint = "buy"
       /\ c.args.token_id \in DOMAIN tokens
       /\ tokens[c.args.token_id].for_sale
       /\ c.sender = tokens[c.args.token_id].owner
    \/ c.entrypoint = "transfer" /\ c.args.new_owner = c.sender
    \/ c.entrypoint = "update_author_address" /\ c.args.new_author = c.sender
    \/ c.entrypoint = "transfer_admin" /\ c.args.new_admin = admin

\* C13: a self-interaction is always rejected and changes nothing.  When
\* nothing else is wrong with the call, it is rejected for being one: a buy
\* of a listed token by its owner even with the exact price attached, a
\* transfer by the owner to the owner, an update_author_address by the author
\* to the author, a transfer_admin by the admin to the admin.
C13_SelfInteractionsRejected ==
    /\ \A c \in Inputs :
         SelfInteraction(c) =>
           LET r == Run(data, c) IN
             /\ r.result # "ok"
             /\ r.data = data
             /\ r.operations = <<>>
    /\ \A t \in DOMAIN tokens :
         /\ tokens[t].for_sale /\ ~paused =>
              buy(data, tokens[t].owner, tokens[t].price, t).result
                = "Cannot buy your own token"
         /\ ~tokens[t].for_sale =>
              transfer(data, tokens[t].owner, 0, t, tokens[t].owner).result
                = "Cannot transfer to yourself"
         /\ update_author_address(data, tokens[t].author, 0, t,
                                  tokens[t].author).result = "Same address"
    /\ transfer_admin(data, admin, 0, admin).result = "Same admin"

\* The owner of a token, who is not its author, has just listed it and
\* cannot buy it at its price.
C13_Witness ==
    /\ last.entrypoint = "list_for_sale"
    /\ ~paused
    /\ tokens[last.args.token_id].for_sale
    /\ tokens[last.args.token_id].owner = last.sender
    /\ tokens[last.args.token_id].author # last.sender
    /\ buy(data, last.sender, last.args.price, last.args.token_id).result
         = "Cannot buy your own token"

\* The conditions under which the code of transfer accepts a call.
TransferAccepted(sender, amount, token_id, new_owner) ==
    /\ token_id \in DOMAIN tokens
    /\ amount = 0
    /\ tokens[token_id].owner = sender
    /\ new_owner # sender
    /\ ~tokens[token_id].for_sale

\* C14: transfer succeeds exactly when the token exists, no payment is
\* attached, the caller is the owner, new_owner is not the caller and the
\* token is not for sale; a successful transfer sets the owner of the token
\* to new_owner, changes nothing else in the storage and pays nothing out.
C14_Transfer ==
    \A sender \in Addresses, amount \in Mutez, token_id \in TokenIds,
       new_owner \in Addresses :
      LET r == transfer(data, sender, amount, token_id, new_owner) IN
        /\ Outcome(r, amount) = "ok"
             <=> TransferAccepted(sender, amount, token_id, new_owner)
        /\ r.result = "ok" =>
             /\ r.operations = <<>>
             /\ r.data.tokens[token_id].owner = new_owner
             /\ r.data.tokens[token_id] =
                  [tokens[token_id] EXCEPT !.owner = new_owner]
             /\ r.data =
                  [data EXCEPT !.tokens =
                     [t \in DOMAIN tokens |->
                        IF t = token_id
                        THEN [tokens[t] EXCEPT !.owner = new_owner]
                        ELSE tokens[t]]]

\* A token bought from its author has just been given away: the balance and
\* the fees are what the sale left, and the author is still the author.
C14_Witness ==
    /\ last.entrypoint = "transfer"
    /\ last.amount = 0
    /\ operations = <<>>
    /\ tokens[last.args.token_id].owner = last.args.new_owner
    /\ tokens[last.args.token_id].author # last.sender
    /\ tokens[last.args.token_id].author # last.args.new_owner
    /\ ~tokens[last.args.token_id].for_sale
    /\ collected_fees = balance

\* C15: withdraw_fees succeeds exactly when the caller is the admin of the
\* moment and collected_fees is above 0; it pays the whole of collected_fees
\* to that admin, whoever was admin when the fees came in, sets
\* collected_fees to 0 and changes nothing else; after it, and after any
\* further successful call other than a mint or a buy, a withdraw_fees of
\* the admin fails for lack of fees.
C15_WithdrawFees ==
    /\ \A sender \in Addresses, amount \in Mutez :
         LET r == withdraw_fees(data, sender, amount) IN
           /\ Outcome(r, amount) = "ok"
                <=> sender = admin /\ collected_fees > 0
           /\ sender = admin /\ ~(collected_fees > 0) =>
                r.result = "No fees to withdraw"
           /\ r.result = "ok" =>
                /\ r.operations = <<[to |-> admin, amount |-> collected_fees]>>
                /\ r.data = [data EXCEPT !.collected_fees = 0]
                /\ withdraw_fees(r.data, admin, amount).result
                     = "No fees to withdraw"
    /\ LET r == withdraw_fees(data, admin, 0) IN
         r.result = "ok" =>
           \A c \in Inputs :
             LET q == Run(r.data, c) IN
               q.result = "ok" /\ c.entrypoint \notin {"mint", "buy"} =>
                 /\ q.data.collected_fees = 0
                 /\ withdraw_fees(q.data, q.data.admin, 0).result
                      = "No fees to withdraw"

\* An admin who took over after a mint and a sale has just withdrawn the
\* fees of both.
C15_Witness ==
    /\ last.entrypoint = "withdraw_fees"
    /\ last.sender = admin
    /\ admin # "admin"
    /\ operations = <<[to |-> admin, amount |-> balance + operations[1].amount]>>
    /\ operations[1].amount > 1
    /\ collected_fees = 0
    /\ withdraw_fees(data, admin, 0).result = "No fees to withdraw"

\* The reasons, other than the pause, for which the code of list_for_sale
\* rejects a call.
ListForSaleRejected(sender, token_id, price) ==
    \/ token_id \notin DOMAIN tokens
    \/ tokens[token_id].owner # sender
    \/ tokens[token_id].for_sale
    \/ price = 0

\* C16: list_for_sale is rejected, with nothing changed, when the token does
\* not exist, when the caller is not its owner, when it is already for sale
\* (at whatever price, so that a listing keeps its price until it is
\* cancelled) or when the price is 0; otherwise, on a contract that is not
\* paused, it sets for_sale = true and the price, changes nothing else and
\* pays nothing out.
C16_ListForSale ==
    \A sender \in Addresses, amount \in Mutez, token_id \in TokenIds,
       price \in Mutez :
      LET r == list_for_sale(data, sender, amount, token_id, price) IN
        /\ ListForSaleRejected(sender, token_id, price) =>
             /\ r.result # "ok"
             /\ Outcome(r, amount) # "ok"
             /\ r.data = data
             /\ r.operations = <<>>
        /\ ~paused =>
             r.result =
               IF token_id \notin DOMAIN tokens THEN "Token does not exist"
               ELSE IF tokens[token_id].owner # sender THEN "Not the owner"
               ELSE IF tokens[token_id].for_sale
               THEN "Already listed for sale"
               ELSE IF price = 0 THEN "Price must be greater than 0"
               ELSE "ok"
        /\ ~paused /\ ~ListForSaleRejected(sender, token_id, price) =>
             /\ Outcome(r, amount) = "ok"
             /\ r.operations = <<>>
             /\ r.data =
                  [data EXCEPT !.tokens =
                     [t \in DOMAIN tokens |->
                        IF t = token_id
                        THEN [tokens[t] EXCEPT !.for_sale = TRUE,
                                               !.price = price]
                        ELSE tokens[t]]]

\* A token has just been listed by its owner, who cannot list it again at
\* another price.
C16_Witness ==
    /\ last.entrypoint = "list_for_sale"
    /\ ~paused
    /\ tokens[last.args.token_id].for_sale
    /\ tokens[last.args.token_id].price = last.args.price
    /\ \E price \in Mutez \ {0, last.args.price} :
         list_for_sale(data, last.sender, 0, last.args.token_id, price).result
           = "Already listed for sale"

\* C17: cancel_sale succeeds exactly when the token exists, the caller is
\* its owner and it is for sale, and then sets for_sale = false and
\* price = 0 and changes nothing else; a cancel_sale by the owner after a
\* successful list_for_sale gives back the storage that the listing found.
C17_CancelUndoesListing ==
    /\ \A sender \in Addresses, amount \in Mutez, token_id \in TokenIds :
         LET r == cancel_sale(data, sender, amount, token_id) IN
           /\ Outcome(r, amount) = "ok"
                <=> /\ token_id \in DOMAIN tokens
                    /\ tokens[token_id].owner = sender
                    /\ tokens[token_id].for_sale
           /\ r.result = "ok" =>
                /\ r.operations = <<>>
                /\ r.data =
                     [data EXCEPT !.tokens =
                        [t \in DOMAIN tokens |->
                           IF t = token_id
                           THEN [tokens[t] EXCEPT !.for_sale = FALSE,
                                                  !.price = 0]
                           ELSE tokens[t]]]
    /\ \A sender \in Addresses, token_id \in TokenIds, price \in Mutez :
         LET l == list_for_sale(data, sender, 0, token_id, price) IN
           l.result = "ok" =>
             LET r == cancel_sale(l.data, sender, 0, token_id) IN
               /\ l.data # data
               /\ r.result = "ok"
               /\ r.operations = <<>>
               /\ r.data = data

\* The buyer of a token has listed it and has just cancelled the listing.
C17_Witness ==
    /\ last.entrypoint = "cancel_sale"
    /\ tokens[last.args.token_id].owner = last.sender
    /\ tokens[last.args.token_id].author # last.sender
    /\ ~tokens[last.args.token_id].for_sale
    /\ tokens[last.args.token_id].price = 0
    /\ list_for_sale(data, last.sender, 0, last.args.token_id, 50).result
         = "ok"

\* C18: no successful call of any entrypoint, a later mint included, removes
\* a token or changes the metadata of a token that exists; a mint gives the
\* new token the metadata it was called with.
C18_MetadataImmutable ==
    \A c \in Inputs :
      LET r == Run(data, c) IN
        r.result = "ok" =>
          /\ \A t \in DOMAIN tokens :
               /\ t \in DOMAIN r.data.tokens
               /\ r.data.tokens[t].metadata = tokens[t].metadata
          /\ c.entrypoint = "mint" =>
               /\ next_id \in DOMAIN r.data.tokens
               /\ r.data.tokens[next_id].metadata = c.args.metadata

\* Token 0 has changed hands and its author has moved to another address,
\* a second token has been minted with other metadata, and token 0 has the
\* metadata of its mint.
C18_Witness ==
    /\ DOMAIN tokens = {0, 1}
    /\ tokens[0].metadata = "ipfs://QmA"
    /\ tokens[1].metadata = "ipfs://QmB"
    /\ tokens[0].owner # "alice"
    /\ tokens[0].author # "alice"

\* C19: the constructor fails exactly when royalty_percent +
\* platform_fee_percent is 100 or more, and stores the two percentages it
\* accepts; in every reachable state the two percentages are a pair that
\* the constructor was given and accepted, their sum is below 100, and no
\* successful call of any entrypoint, the admin's included, changes either.
C19_RatesFixed ==
    /\ \A royalty \in SalePercents, fee \in SalePercents :
         LET r == init("admin", 1, royalty, fee) IN
           /\ r.result = "Fees too high" <=> royalty + fee >= 100
           /\ r.result # "Fees too high" =>
                /\ r.result = "ok"
                /\ r.data.royalty_percent = royalty
                /\ r.data.platform_fee_percent = fee
    /\ <<royalty_percent, platform_fee_percent>> \in Percents
    /\ royalty_percent + platform_fee_percent < 100
    /\ \A c \in Inputs :
         LET r == Run(data, c) IN
           r.result = "ok" =>
             /\ r.data.royalty_percent = royalty_percent
             /\ r.data.platform_fee_percent = platform_fee_percent

\* On a contract constructed with percentages that sum to 99, three more
\* calls have been applied, the last of them by the admin, and one percent
\* more of fee would have made the construction fail.
C19_Witness ==
    /\ calls = MaxCalls
    /\ last.entrypoint \in AdminEntrypoints
    /\ last.sender = admin
    /\ royalty_percent + platform_fee_percent = 99
    /\ init("admin", 1, royalty_percent, platform_fee_percent + 1).result
         = "Fees too high"

\* C20: a successful mint adds its payment to collected_fees, a successful
\* buy adds platform_fee, a successful withdraw_fees sets it to 0, and a
\* successful call of any other entrypoint leaves it as it was; no call
\* other than a withdraw_fees makes it smaller.
C20_CollectedFeesFrame ==
    \A c \in Inputs :
      LET r == Run(data, c) IN
        r.result = "ok" =>
          /\ r.data.collected_fees =
               CASE c.entrypoint = "mint" -> collected_fees + c.amount
                 [] c.entrypoint = "buy" ->
                      collected_fees
                        + (tokens[c.args.token_id].price
                             * platform_fee_percent) \div 100
                 [] c.entrypoint = "withdraw_fees" -> 0
                 [] OTHER -> collected_fees
          /\ c.entrypoint # "withdraw_fees" =>
               r.data.collected_fees >= collected_fees

\* A second sale at 50 has just added its fee of 49% to the fees of the mint
\* and of the first sale.
C20_Witness ==
    /\ last.entrypoint = "buy"
    /\ last.amount = 50
    /\ calls > MaxCalls - 3
    /\ platform_fee_percent = 49
    /\ collected_fees = 1 + 2 * ((50 * platform_fee_percent) \div 100)

\* The error of the first check of buy that a call fails on the storage d,
\* in the order paused, token does not exist, token not for sale, caller is
\* the owner, payment is not the price; "ok" when it fails none.
BuyFirstError(d, sender, amount, token_id) ==
    IF d.paused THEN "Contract is paused"
    ELSE IF token_id \notin DOMAIN d.tokens THEN "Token does not exist"
    ELSE IF ~d.tokens[token_id].for_sale THEN "Token not for sale"
    ELSE IF sender = d.tokens[token_id].owner THEN "Cannot buy your own token"
    ELSE IF amount # d.tokens[token_id].price THEN "Invalid price"
    ELSE "ok"

\* C21: a buy that fails several checks reports the first that fails in the
\* order paused, token does not exist, token not for sale, caller is the
\* owner, payment is not the price, on the contract as it is and on the same
\* contract paused or not paused.  The owner of a listed token who attaches
\* another amount than the price is told not to buy their own token, and a
\* buy of a token that does not exist on a paused contract is told that the
\* contract is paused.
C21_BuyErrorOrder ==
    \A sender \in Addresses, amount \in Mutez \cup ListedPrices,
       token_id \in TokenIds, paused_ \in BOOLEAN :
      LET d == [data EXCEPT !.paused = paused_]
          r == buy(d, sender, amount, token_id)
      IN /\ r.result = BuyFirstError(d, sender, amount, token_id)
         /\ paused_ => r.result = "Contract is paused"
         /\ /\ ~paused_
            /\ token_id \in DOMAIN tokens
            /\ tokens[token_id].for_sale
            /\ sender = tokens[token_id].owner
            => r.result = "Cannot buy your own token"

\* The contract has just been paused with a token listed: a buy of a token
\* that does not exist is rejected as paused, and was rejected as not
\* existing before the pause; the owner's buy of the listed token with
\* another amount than the price was rejected as a buy of their own token.
C21_Witness ==
    /\ paused
    /\ last.entrypoint = "set_pause"
    /\ \E t \in DOMAIN tokens, u \in TokenIds \ DOMAIN tokens :
         /\ tokens[t].for_sale
         /\ buy(data, "bob", 0, u).result = "Contract is paused"
         /\ buy([data EXCEPT !.paused = FALSE], "bob", 0, u).result
              = "Token does not exist"
         /\ buy([data EXCEPT !.paused = FALSE], tokens[t].owner,
                tokens[t].price + 1, t).result = "Cannot buy your own token"

\* C22: with the balance of the contract kept as the payments attached to
\* the applied calls less the payouts, the balance is never below
\* collected_fees, so that a withdraw_fees that passes its checks, which only
\* the admin's does, is paid in full even with nothing attached.  The two are equal after the construction, a mint and a sale; a
\* mint or a buy keeps their difference, and any other applied call adds the
\* payment attached to it to the difference and nothing to collected_fees:
\* a withdraw_fees pays out collected_fees and no more, so that such a
\* payment stays in the balance.
C22_Solvency ==
    [][/\ balance >= collected_fees
       /\ balance' >= collected_fees'
       /\ calls = MaxCalls - 3 => balance = collected_fees
       /\ LET r == withdraw_fees(data, admin, 0) IN
            r.result = "ok" => Outcome(r, 0) = "ok"
       /\ calls' = calls + 1 =>
            /\ balance' - collected_fees' =
                 (balance - collected_fees)
                   + (IF last'.entrypoint \in {"mint", "buy"}
                      THEN 0 ELSE last'.amount)
            /\ last'.entrypoint \notin {"mint", "buy", "withdraw_fees"} =>
                 /\ collected_fees' = collected_fees
                 /\ balance' = balance + last'.amount
            /\ last'.entrypoint = "withdraw_fees" =>
                 /\ operations' = <<[to |-> admin, amount |-> collected_fees]>>
                 /\ collected_fees' = 0
                 /\ balance' = balance - collected_fees + last'.amount]_vars

\* After a call that carried a payment no check looked at, the admin has
\* just withdrawn the fees: the payment is still in the balance and no
\* withdraw_fees can take it out.
C22_Witness ==
    /\ last.entrypoint = "withdraw_fees"
    /\ last.amount = 0
    /\ collected_fees = 0
    /\ balance > 0
    /\ withdraw_fees(data, admin, 0).result = "No fees to withdraw"

\* C23: the percentages sum to less than 100 and every listed token has a
\* price of 1 or more, so that in buy neither price - royalty nor
\* price - royalty - platform_fee is negative: no buy fails on the
\* subtraction of mutez, every buy that passes the five checks succeeds, and
\* every successful buy sends the seller 1 mutez or more.
C23_NoUnderflow ==
    /\ royalty_percent + platform_fee_percent < 100
    /\ \A t \in DOMAIN tokens : tokens[t].for_sale => tokens[t].price >= 1
    /\ \A sender \in Addresses, amount \in Mutez \cup ListedPrices,
          token_id \in TokenIds :
         LET r == buy(data, sender, amount, token_id) IN
           /\ r.result # "Mutez underflow"
           /\ BuyAccepted(sender, amount, token_id) =>
                r.result = "ok" /\ Outcome(r, amount) = "ok"
           /\ r.result = "ok" =>
                /\ Len(r.operations) = 2
                /\ r.operations[1].amount >= 0
                /\ r.operations[2].to = tokens[token_id].owner
                /\ r.operations[2].amount >= 1
                /\ r.operations[2].amount =
                     tokens[token_id].price
                       - split_tokens(tokens[token_id].price,
                                      royalty_percent, 100)
                       - split_tokens(tokens[token_id].price,
                                      platform_fee_percent, 100)

\* A token listed at 100 under percentages that sum to 99 has just been
\* bought, and its seller was sent 1 mutez.
C23_Witness ==
    /\ last.entrypoint = "buy"
    /\ last.amount = 100
    /\ royalty_percent + platform_fee_percent = 99
    /\ Len(operations) = 2
    /\ operations[2].amount = 1
    /\ operations[2].to # last.sender

\* C24: on every step, for every token: its owner changes only by an applied
\* buy or transfer of that token, and not while it stays for sale; while it
\* stays for sale its owner and its price stay; it becomes for sale only by
\* a list_for_sale that its owner calls, at the price given; a buy of it
\* carries the listed price, pays the seller_amount to the owner that listed
\* it and takes it off sale in the same step.  A buy that follows the
\* list_for_sale of the token carries the price given in that call and pays
\* its caller.
C24_ListingIntegrity ==
    [][\A t \in DOMAIN tokens :
         /\ t \in DOMAIN tokens'
         /\ tokens'[t].owner # tokens[t].owner =>
              /\ Applied("buy") \/ Applied("transfer")
              /\ last'.args.token_id = t
              /\ ~(tokens[t].for_sale /\ tokens'[t].for_sale)
              /\ Applied("transfer") => ~tokens[t].for_sale
         /\ tokens[t].for_sale /\ tokens'[t].for_sale =>
              /\ tokens'[t].owner = tokens[t].owner
              /\ tokens'[t].price = tokens[t].price
         /\ ~tokens[t].for_sale /\ tokens'[t].for_sale =>
              /\ Applied("list_for_sale")
              /\ last'.args.token_id = t
              /\ last'.sender = tokens[t].owner
              /\ tokens'[t].owner = last'.sender
              /\ tokens'[t].price = last'.args.price
         /\ Applied("buy") /\ last'.args.token_id = t =>
              /\ tokens[t].for_sale
              /\ ~tokens'[t].for_sale
              /\ last'.amount = tokens[t].price
              /\ operations'[2].to = tokens[t].owner
              /\ tokens'[t].owner = last'.sender
              /\ last.entrypoint = "list_for_sale" /\ last.args.token_id = t
                   => /\ last'.amount = last.args.price
                      /\ operations'[2].to = last.sender]_vars

\* A token given away by its buyer has been listed by its new owner, and
\* has just been bought at the listed price, which was paid to that owner.
C24_Witness ==
    /\ last.entrypoint = "buy"
    /\ calls = MaxCalls
    /\ Len(operations) = 2
    /\ operations[2].to \notin {"alice", "bob"}
    /\ operations[2].to # last.sender
    /\ operations[2].amount > 0
    /\ tokens[last.args.token_id].owner = last.sender
    /\ ~tokens[last.args.token_id].for_sale

====
